---- MODULE Spec2Model ----
(***************************************************************************)
(* Model of go/channelling/pipeline_manager.go: the pipelineManager with   *)
(* its four tables behind one sync.RWMutex, the sweeper (cleanup), the two  *)
(* bus handlers (sessionCreate, sessionClose) and the lookup API            *)
(* (GetPipelineByID, GetPipeline, FindSink).                                *)
(*                                                                         *)
(* Goroutines are the threads of the model.  A handler is cut into steps    *)
(* at the places where another goroutine can observe a difference: taking   *)
(* the lock together with the first statements under it, the rest of the    *)
(* critical section, the unlock, and the statements after the unlock.       *)
(* Objects (Pipeline, Session, Sink) are indices into the sequences pipes,  *)
(* sessions and sinks; index 0 is the nil pointer.                          *)
(***************************************************************************)
EXTENDS Integers, Sequences, FiniteSets, TLC

VARIABLES
    mutex,                \* plm.mutex: [w |-> writer thread or "", r |-> set of readers]
    pipelineTable,        \* plm.pipelineTable: pipeline id -> Pipeline
    sessionTable,         \* plm.sessionTable: session.Id -> Session
    sessionByBusIDTable,  \* plm.sessionByBusIDTable: bus id -> Session
    sessionSinkTable,     \* plm.sessionSinkTable: session.Id -> Sink
    pipes,                \* the Pipeline objects made by NewPipeline
    sessions,             \* the Session objects made by CreateSession
    sinks,                \* the Sink objects made by CreateSink
    now,                  \* time.Now(), in ticks
    pc,                   \* each goroutine's position
    frame,                \* each goroutine's arguments and local variables
    todo,                 \* cleanup: the keys the range loop has still to visit
    sweepExpired,         \* history: the pipelines that were expired when the sweep took the lock
    returned,             \* history: <<id, Pipeline>> for every GetPipeline that has returned
    lockedCloses          \* history: <<kind, object>> for every Close invoked with the lock held

vars == <<mutex, pipelineTable, sessionTable, sessionByBusIDTable, sessionSinkTable,
          pipes, sessions, sinks, now, pc, frame, todo, sweepExpired, returned,
          lockedCloses>>

pipeVars == <<pipelineTable, pipes, todo, sweepExpired, returned>>
sessVars == <<sessionTable, sessionByBusIDTable, sessionSinkTable, sessions, sinks>>

----------------------------------------------------------------------------
(* Bounds of the model and constants of the program. *)

MaxTime == 3
MaxPipelines == 3
MaxSessions == 2

\* plm.duration (30 * time.Minute), in ticks of the model's clock.
duration == 1

PipelineNamespaceCall == "call"

Sweeper == "sweeper"
Workers == {"w1", "w2"}

\* The bus ids that messages carry; "" is the empty id the handlers ignore.
BusIds == {"ext-1", "ext-2"}
\* msg.Session: "nil" is the absent payload, otherwise the status it carries.
Statuses == {"away", "online"}
NilPayload == "nil"

\* The (session.Id, to) pairs GetPipeline is called with.
CallerSessionIds == {"s1"}
Targets == {"userB", "userC"}

Range(f) == {f[k] : k \in DOMAIN f}

InTable(table, obj) == \E k \in DOMAIN table : table[k] = obj

\* A Go map with no entries.
EmptyMap == [k \in {} |-> 0]

\* delete(table, k)
Delete(table, k) == [x \in DOMAIN table \ {k} |-> table[x]]

\* table[k] = v
Put(table, k, v) == [x \in DOMAIN table \cup {k} |-> IF x = k THEN v ELSE table[x]]

Frame0 ==
    [args |-> <<>>, id |-> "", status |-> "", room |-> FALSE, session |-> 0,
     sink |-> 0, ok |-> FALSE, pipeline |-> 0]

----------------------------------------------------------------------------
(* sync.RWMutex *)

CanLock == mutex.w = "" /\ mutex.r = {}
CanRLock == mutex.w = ""
Locked(t) == [mutex EXCEPT !.w = t]
Unlocked == [mutex EXCEPT !.w = ""]
RLocked(t) == [mutex EXCEPT !.r = @ \cup {t}]
RUnlocked(t) == [mutex EXCEPT !.r = @ \ {t}]
LockHeld == mutex.w # "" \/ mutex.r # {}

----------------------------------------------------------------------------
(* Pipeline: Refresh, Expired, Close, NewPipeline *)

\* Pipeline.Refresh(duration): expires = time.Now().Add(duration)
Refresh(p, d) == [p EXCEPT !.expires = now + d]

\* Pipeline.Expired(): expires.Before(time.Now())
Expired(p) == p.expires < now

\* Pipeline.Close()
ClosePipeline(p) == [p EXCEPT !.closes = @ + 1]

\* NewPipeline(plm, namespace, id, session, duration): a new object, refreshed.
NewPipeline(id, d) ==
    Refresh([id |-> id, expires |-> 0, closes |-> 0, revived |-> "no"], d)

\* fmt.Sprintf("%s.%s.%s", namespace, session.Id, to)
PipelineID(namespace, sessionId, to) == namespace \o "." \o sessionId \o "." \o to

PipelineIds ==
    {PipelineID(PipelineNamespaceCall, s, to) : s \in CallerSessionIds, to \in Targets}

\* The ids GetPipelineByID is asked for: the ids in use and one nobody uses.
LookupIds == PipelineIds \cup {PipelineID(PipelineNamespaceCall, "s1", "nobody")}

----------------------------------------------------------------------------

Init ==
    /\ mutex = [w |-> "", r |-> {}]
    /\ pipelineTable = EmptyMap
    /\ sessionTable = EmptyMap
    /\ sessionByBusIDTable = EmptyMap
    /\ sessionSinkTable = EmptyMap
    /\ pipes = <<>>
    /\ sessions = <<>>
    /\ sinks = <<>>
    /\ now = 0
    /\ pc = [t \in Workers \cup {Sweeper} |-> "idle"]
    /\ frame = [t \in Workers \cup {Sweeper} |-> Frame0]
    /\ todo = {}
    /\ sweepExpired = {}
    /\ returned = {}
    /\ lockedCloses = {}

\* The clock advances; nothing else changes.
Tick ==
    /\ now < MaxTime
    /\ now' = now + 1
    /\ UNCHANGED <<mutex, pipelineTable, sessionTable, sessionByBusIDTable,
                   sessionSinkTable, pipes, sessions, sinks, pc, frame, todo,
                   sweepExpired, returned, lockedCloses>>

----------------------------------------------------------------------------
(* cleanup: the sweep the ticker goroutine of start() runs every 30 seconds *)

\* line 79, and the range statement of line 80 taking the keys it will visit.
CleanupLock ==
    /\ pc[Sweeper] = "idle"
    /\ CanLock
    /\ mutex' = Locked(Sweeper)
    /\ todo' = DOMAIN pipelineTable
    /\ sweepExpired' = {pipelineTable[k] : k \in {x \in DOMAIN pipelineTable :
                                                  Expired(pipes[pipelineTable[x]])}}
    /\ pc' = [pc EXCEPT ![Sweeper] = "cleanup_range"]
    /\ UNCHANGED <<pipelineTable, pipes, returned, sessVars, now, frame, lockedCloses>>

\* Mutant of CleanupEvicts: the sweep evicts whatever it visits.
CleanupEvictsAll(p) == TRUE

\* line 81: the condition under which the loop body evicts.
CleanupEvicts(p) == Expired(p)

\* Mutant of CleanupClose: the sweep drops the entry without closing the pipeline.
CleanupCloseSkipped(p) == p

\* line 82
CleanupClose(p) == ClosePipeline(p)

\* Mutant of CleanupDelete: the sweep closes the pipeline and leaves its entry.
CleanupDeleteSkipped(table, id) == table

\* line 83
CleanupDelete(table, id) == Delete(table, id)

\* lines 80-85, one iteration, for whichever key the map's iteration yields next.
CleanupVisit(id) ==
    /\ pc[Sweeper] = "cleanup_range"
    /\ id \in todo
    /\ todo' = todo \ {id}
    /\ LET p == pipelineTable[id] IN
       IF CleanupEvicts(pipes[p])
       THEN /\ pipes' = [pipes EXCEPT ![p] = CleanupClose(@)]
            /\ lockedCloses' = lockedCloses \cup {<<"pipeline", p>>}
            /\ pipelineTable' = CleanupDelete(pipelineTable, id)
       ELSE /\ pipes' = [pipes EXCEPT ![p].revived =
                             IF @ = "yes" THEN "kept" ELSE @]
            /\ UNCHANGED <<pipelineTable, lockedCloses>>
    /\ UNCHANGED <<mutex, sweepExpired, returned, sessVars, now, pc, frame>>

\* line 86, when the loop has run out of keys.
CleanupUnlock ==
    /\ pc[Sweeper] = "cleanup_range"
    /\ todo = {}
    /\ mutex' = Unlocked
    /\ pc' = [pc EXCEPT ![Sweeper] = "idle"]
    /\ sweepExpired' = {}
    /\ UNCHANGED <<pipelineTable, pipes, todo, returned, sessVars, now, frame,
                   lockedCloses>>

----------------------------------------------------------------------------
(* GetPipeline *)

\* Mutant of GetPipelineFinds: the lookup misses, every call creates.
GetPipelineFindsNever(table, id) == FALSE

\* Mutant of GetPipelineFinds: an expired entry counts as a miss and is replaced.
GetPipelineFindsUnexpired(table, id) ==
    id \in DOMAIN table /\ ~Expired(pipes[table[id]])

\* line 186: the test that decides between refresh and create.
GetPipelineFinds(table, id) == id \in DOMAIN table

\* Mutant of GetPipelineRefresh: the pipeline found is returned without a refresh.
GetPipelineRefreshSkipped(p) == p

\* line 189
GetPipelineRefresh(p) == Refresh(p, duration)

\* lines 183-196: the id, the lock, and the refresh or the creation under it.
GetPipelineLock(t, namespace, sessionId, to) ==
    /\ pc[t] = "idle"
    /\ CanLock
    /\ mutex' = Locked(t)
    /\ LET id == PipelineID(namespace, sessionId, to) IN
       IF GetPipelineFinds(pipelineTable, id)
       THEN LET p == pipelineTable[id] IN
            /\ pipes' = [pipes EXCEPT ![p] =
                   [GetPipelineRefresh(@) EXCEPT !.revived =
                       IF Expired(pipes[p]) THEN "yes" ELSE @]]
            /\ frame' = [frame EXCEPT ![t] =
                   [Frame0 EXCEPT !.args = <<namespace, sessionId, to>>,
                                  !.id = id, !.ok = TRUE, !.pipeline = p]]
            /\ UNCHANGED pipelineTable
       ELSE /\ Len(pipes) < MaxPipelines
            /\ pipes' = Append(pipes, NewPipeline(id, duration))
            /\ pipelineTable' = Put(pipelineTable, id, Len(pipes) + 1)
            /\ frame' = [frame EXCEPT ![t] =
                   [Frame0 EXCEPT !.args = <<namespace, sessionId, to>>,
                                  !.id = id, !.pipeline = Len(pipes) + 1]]
    /\ pc' = [pc EXCEPT ![t] = "GetPipeline_unlock"]
    /\ UNCHANGED <<todo, sweepExpired, returned, sessVars, now, lockedCloses>>

\* lines 190-191 and 197-199: unlock and return the pipeline.
GetPipelineUnlock(t) ==
    /\ pc[t] = "GetPipeline_unlock"
    /\ mutex' = Unlocked
    /\ returned' = returned \cup {<<frame[t].args, frame[t].pipeline>>}
    /\ pc' = [pc EXCEPT ![t] = "idle"]
    /\ frame' = [frame EXCEPT ![t] = Frame0]
    /\ UNCHANGED <<pipelineTable, pipes, todo, sweepExpired, sessVars, now,
                   lockedCloses>>

----------------------------------------------------------------------------
(* GetPipelineByID *)

\* lines 166-173: the pipelines the lookup can yield, with its ok. On a miss the
\* range loop takes the first entry of the map's iteration, which is any entry.
GetPipelineByIDResults(table, id) ==
    IF id \in DOMAIN table
    THEN {[pipeline |-> table[id], ok |-> TRUE]}
    ELSE IF DOMAIN table # {}
         THEN {[pipeline |-> table[k], ok |-> TRUE] : k \in DOMAIN table}
         ELSE {[pipeline |-> 0, ok |-> FALSE]}

\* lines 165-173
GetPipelineByIDRLock(t, id) ==
    /\ pc[t] = "idle"
    /\ CanRLock
    /\ mutex' = RLocked(t)
    /\ \E res \in GetPipelineByIDResults(pipelineTable, id) :
          frame' = [frame EXCEPT ![t] =
              [Frame0 EXCEPT !.id = id, !.ok = res.ok, !.pipeline = res.pipeline]]
    /\ pc' = [pc EXCEPT ![t] = "GetPipelineByID_unlock"]
    /\ UNCHANGED <<pipeVars, sessVars, now, lockedCloses>>

\* lines 174-175
GetPipelineByIDRUnlock(t) ==
    /\ pc[t] = "GetPipelineByID_unlock"
    /\ mutex' = RUnlocked(t)
    /\ pc' = [pc EXCEPT ![t] = "idle"]
    /\ frame' = [frame EXCEPT ![t] = Frame0]
    /\ UNCHANGED <<pipeVars, sessVars, now, lockedCloses>>

----------------------------------------------------------------------------
(* The registry's pipeline side: the sweeper and the callers of the lookup API *)

NextPipe ==
    \/ Tick
    \/ CleanupLock
    \/ \E id \in PipelineIds : CleanupVisit(id)
    \/ CleanupUnlock
    \/ \E t \in Workers, s \in CallerSessionIds, to \in Targets :
          GetPipelineLock(t, PipelineNamespaceCall, s, to)
    \/ \E t \in Workers : GetPipelineUnlock(t)
    \/ \E t \in Workers, id \in LookupIds : GetPipelineByIDRLock(t, id)
    \/ \E t \in Workers : GetPipelineByIDRUnlock(t)

SpecPipe == Init /\ [][NextPipe]_vars

----------------------------------------------------------------------------
(* Session and Sink: the collaborators' objects *)

\* SessionCreator.CreateSession(nil, ""): the n-th session, with an Id of its own.
\* bus, prev and life are history: the bus id the session was made for, the
\* session it replaced (0: none), and what the handlers have done with it
\* ("mapped", "replaced" by a later create, "detached" by a close). late is
\* history too: sessionCreate used the session after its Close.
CreateSession(n, busId, prev) ==
    [Id |-> "s" \o ToString(n), Status |-> "", Userid |-> "", joined |-> FALSE,
     closes |-> 0, bus |-> busId, prev |-> prev, life |-> "mapped", late |-> FALSE]

\* CreateSink(msg.Id)
CreateSink(busId) == [bus |-> busId, enabled |-> TRUE, closes |-> 0]

\* Session.Close()
CloseSession(s) == [s EXCEPT !.closes = @ + 1]

\* Sink.Close()
CloseSink(k) == [k EXCEPT !.closes = @ + 1]

\* Sink.Enabled()
Enabled(k) == k.enabled

\* The transport behind a sink comes and goes: Enabled() changes its answer.
SinkSetEnabled(k) ==
    /\ k \in 1..Len(sinks)
    /\ sinks' = [sinks EXCEPT ![k].enabled = ~@]
    /\ UNCHANGED <<mutex, pipeVars, sessionTable, sessionByBusIDTable,
                   sessionSinkTable, sessions, now, pc, frame, lockedCloses>>

----------------------------------------------------------------------------
(* sessionCreate *)

\* Mutant of SessionCreateIgnores: only the payload is looked at.
SessionCreateIgnoresNilOnly(busId, payload) == payload = NilPayload

\* line 101: msg.Session == nil || msg.Id == ""
SessionCreateIgnores(busId, payload) == payload = NilPayload \/ busId = ""

\* lines 99-101: the handler is entered with a message it will ignore.
SessionCreateIgnore(t, busId, payload, room) ==
    /\ pc[t] = "idle"
    /\ SessionCreateIgnores(busId, payload)
    /\ pc' = [pc EXCEPT ![t] = "sessionCreate_ignored"]
    /\ UNCHANGED <<mutex, pipeVars, sessVars, now, frame, lockedCloses>>

\* line 102: the return that ignores the message.
SessionCreateReturn(t) ==
    /\ pc[t] = "sessionCreate_ignored"
    /\ pc' = [pc EXCEPT ![t] = "idle"]
    /\ UNCHANGED <<mutex, pipeVars, sessVars, now, frame, lockedCloses>>

\* Mutant of SessionCreateDeleteSession: the replaced session keeps its entry.
SessionCreateDeleteSessionSkipped(table, sid) == table

\* line 111
SessionCreateDeleteSession(table, sid) == Delete(table, sid)

\* Mutant of SessionCreateDeleteSink: the replaced session's sink keeps its entry.
SessionCreateDeleteSinkSkipped(table, sid) == table

\* line 113
SessionCreateDeleteSink(table, sid) == Delete(table, sid)

\* Mutant of SessionCreateCloseOld: the replaced session is dropped unclosed.
SessionCreateCloseOldSkipped(s) == s

\* line 114
SessionCreateCloseOld(s) == CloseSession(s)

\* lines 101-118: the lock, and the removal of the session the bus id maps to.
SessionCreateLock(t, busId, payload, room) ==
    /\ pc[t] = "idle"
    /\ ~SessionCreateIgnores(busId, payload)
    /\ Len(sessions) < MaxSessions
    /\ CanLock
    /\ mutex' = Locked(t)
    /\ IF busId \in DOMAIN sessionByBusIDTable
       THEN LET session == sessionByBusIDTable[busId]
                sid == sessions[session].Id
                sink == IF sid \in DOMAIN sessionSinkTable
                        THEN sessionSinkTable[sid] ELSE 0
            IN
            /\ sessionTable' = SessionCreateDeleteSession(sessionTable, sid)
            /\ sessionSinkTable' = SessionCreateDeleteSink(sessionSinkTable, sid)
            /\ sessions' = [sessions EXCEPT ![session] =
                   [SessionCreateCloseOld(@) EXCEPT !.life = "replaced"]]
            /\ sinks' = IF sink # 0
                        THEN [sinks EXCEPT ![sink] = CloseSink(@)]
                        ELSE sinks
            /\ lockedCloses' = lockedCloses \cup {<<"session", session>>}
                   \cup (IF sink # 0 THEN {<<"sink", sink>>} ELSE {})
            /\ frame' = [frame EXCEPT ![t] =
                   [Frame0 EXCEPT !.id = busId, !.status = payload, !.room = room,
                                  !.session = session, !.sink = sink, !.ok = TRUE]]
       ELSE /\ frame' = [frame EXCEPT ![t] =
                   [Frame0 EXCEPT !.id = busId, !.status = payload, !.room = room]]
            /\ UNCHANGED <<sessionTable, sessionSinkTable, sessions, sinks,
                           lockedCloses>>
    /\ pc' = [pc EXCEPT ![t] = "sessionCreate_insert"]
    /\ UNCHANGED <<sessionByBusIDTable, pipeVars, now>>

\* lines 122-124: the sink the new session is registered with.
SessionCreateSinkIsNew(sink) == sink = 0

\* lines 119-126: the new session, its sink, their three entries, and the unlock.
SessionCreateInsert(t) ==
    /\ pc[t] = "sessionCreate_insert"
    /\ LET n == Len(sessions) + 1
           session == CreateSession(n, frame[t].id, frame[t].session)
           fresh == SessionCreateSinkIsNew(frame[t].sink)
           sink == IF fresh THEN Len(sinks) + 1 ELSE frame[t].sink
       IN
       /\ sessions' = Append(sessions, session)
       /\ sessionByBusIDTable' = Put(sessionByBusIDTable, frame[t].id, n)
       /\ sessionTable' = Put(sessionTable, session.Id, n)
       /\ sinks' = IF fresh THEN Append(sinks, CreateSink(frame[t].id)) ELSE sinks
       /\ sessionSinkTable' = Put(sessionSinkTable, session.Id, sink)
       /\ frame' = [frame EXCEPT ![t].session = n, ![t].sink = sink]
    /\ mutex' = Unlocked
    /\ pc' = [pc EXCEPT ![t] = "sessionCreate_apply"]
    /\ UNCHANGED <<pipeVars, now, lockedCloses>>

\* Mutant of SessionCreateStatus: the payload's status is not applied.
SessionCreateStatusDropped(status) == ""

\* line 128: the value session.Status is given.
SessionCreateStatus(status) == status

\* lines 128-137: session.Status = msg.Session.Status, SetUseridFake, JoinRoom
\* when the message names a room, BroadcastStatus.
SessionCreateApply(t) ==
    /\ pc[t] = "sessionCreate_apply"
    /\ sessions' = [sessions EXCEPT ![frame[t].session] =
           [@ EXCEPT !.Status = SessionCreateStatus(frame[t].status),
                     !.Userid = "fake",
                     !.joined = frame[t].room,
                     !.late = sessions[frame[t].session].closes > 0]]
    /\ pc' = [pc EXCEPT ![t] = "idle"]
    /\ frame' = [frame EXCEPT ![t] = Frame0]
    /\ UNCHANGED <<mutex, pipeVars, sessionTable, sessionByBusIDTable,
                   sessionSinkTable, sinks, now, lockedCloses>>

----------------------------------------------------------------------------
(* sessionClose *)

\* line 143: id == ""
SessionCloseIgnores(busId) == busId = ""

\* lines 141-143: the handler is entered with an id it will ignore.
SessionCloseIgnore(t, busId) ==
    /\ pc[t] = "idle"
    /\ SessionCloseIgnores(busId)
    /\ pc' = [pc EXCEPT ![t] = "sessionClose_ignored"]
    /\ UNCHANGED <<mutex, pipeVars, sessVars, now, frame, lockedCloses>>

\* line 144: the return that ignores the message.
SessionCloseReturn(t) ==
    /\ pc[t] = "sessionClose_ignored"
    /\ pc' = [pc EXCEPT ![t] = "idle"]
    /\ UNCHANGED <<mutex, pipeVars, sessVars, now, frame, lockedCloses>>

\* Mutant of SessionCloseTarget: the session of another bus id is taken when
\* there is one.
SessionCloseTargetOther(table, busId) ==
    IF DOMAIN table \ {busId} # {}
    THEN table[CHOOSE k \in DOMAIN table \ {busId} : TRUE]
    ELSE IF busId \in DOMAIN table THEN table[busId] ELSE 0

\* Mutant of SessionCloseTarget: on a miss, any mapped session is taken instead.
SessionCloseTargetAny(table, busId) ==
    IF busId \in DOMAIN table THEN table[busId]
    ELSE IF DOMAIN table # {} THEN table[CHOOSE k \in DOMAIN table : TRUE]
    ELSE 0

\* line 148: session, ok := plm.sessionByBusIDTable[id]; 0 is the miss.
SessionCloseTarget(table, busId) ==
    IF busId \in DOMAIN table THEN table[busId] ELSE 0

\* lines 143-156: the lock, the removal of the three entries, the sink's Close.
SessionCloseLock(t, busId) ==
    /\ pc[t] = "idle"
    /\ ~SessionCloseIgnores(busId)
    /\ CanLock
    /\ mutex' = Locked(t)
    /\ LET session == SessionCloseTarget(sessionByBusIDTable, busId) IN
       IF session # 0
       THEN LET sid == sessions[session].Id
                hasSink == sid \in DOMAIN sessionSinkTable
                sink == IF hasSink THEN sessionSinkTable[sid] ELSE 0
            IN
            /\ sessionByBusIDTable' = Delete(sessionByBusIDTable, busId)
            /\ sessionTable' = Delete(sessionTable, sid)
            /\ sessionSinkTable' = Delete(sessionSinkTable, sid)
            /\ sinks' = IF hasSink
                        THEN [sinks EXCEPT ![sink] = CloseSink(@)]
                        ELSE sinks
            /\ lockedCloses' = lockedCloses
                   \cup (IF hasSink THEN {<<"sink", sink>>} ELSE {})
            /\ sessions' = [sessions EXCEPT ![session].life = "detached"]
            /\ frame' = [frame EXCEPT ![t] =
                   [Frame0 EXCEPT !.id = busId, !.session = session,
                                  !.sink = sink, !.ok = TRUE]]
       ELSE /\ frame' = [frame EXCEPT ![t] = [Frame0 EXCEPT !.id = busId]]
            /\ UNCHANGED <<sessVars, lockedCloses>>
    /\ pc' = [pc EXCEPT ![t] = "sessionClose_unlock"]
    /\ UNCHANGED <<pipeVars, now>>

\* line 157, and the return of lines 159-162 when nothing was mapped.
SessionCloseUnlock(t) ==
    /\ pc[t] = "sessionClose_unlock"
    /\ mutex' = Unlocked
    /\ IF frame[t].ok
       THEN /\ pc' = [pc EXCEPT ![t] = "sessionClose_close"]
            /\ UNCHANGED frame
       ELSE /\ pc' = [pc EXCEPT ![t] = "idle"]
            /\ frame' = [frame EXCEPT ![t] = Frame0]
    /\ UNCHANGED <<pipeVars, sessVars, now, lockedCloses>>

\* lines 159-161: session.Close() after the unlock.
SessionCloseClose(t) ==
    /\ pc[t] = "sessionClose_close"
    /\ sessions' = [sessions EXCEPT ![frame[t].session] = CloseSession(@)]
    /\ pc' = [pc EXCEPT ![t] = "idle"]
    /\ frame' = [frame EXCEPT ![t] = Frame0]
    /\ UNCHANGED <<mutex, pipeVars, sessionTable, sessionByBusIDTable,
                   sessionSinkTable, sinks, now, lockedCloses>>

----------------------------------------------------------------------------
(* FindSink *)

\* line 205: the lookup.
FindSinkFinds(table, to) == to \in DOMAIN table

\* lines 204-205
FindSinkRLock(t, to) ==
    /\ pc[t] = "idle"
    /\ CanRLock
    /\ mutex' = RLocked(t)
    /\ frame' = [frame EXCEPT ![t] =
           IF FindSinkFinds(sessionSinkTable, to)
           THEN [Frame0 EXCEPT !.id = to, !.ok = TRUE, !.sink = sessionSinkTable[to]]
           ELSE [Frame0 EXCEPT !.id = to]]
    /\ pc' = [pc EXCEPT ![t] = "FindSink_unlock"]
    /\ UNCHANGED <<pipeVars, sessVars, now, lockedCloses>>

\* Mutant of FindSinkMissUnlock: the miss path returns with the read lock held.
FindSinkMissUnlockSkipped(t) == mutex

\* line 214: the RUnlock of the path on which nothing was found.
FindSinkMissUnlock(t) == RUnlocked(t)

\* line 206, or lines 214-215 returning nil when nothing was found.
FindSinkRUnlock(t) ==
    /\ pc[t] = "FindSink_unlock"
    /\ mutex' = IF frame[t].ok THEN RUnlocked(t) ELSE FindSinkMissUnlock(t)
    /\ pc' = [pc EXCEPT ![t] = IF frame[t].ok THEN "FindSink_enabled"
                                               ELSE "FindSink_return"]
    /\ UNCHANGED <<pipeVars, sessVars, now, frame, lockedCloses>>

\* Mutant of FindSinkResult: the sink found is returned whatever Enabled() says.
FindSinkResultUnfiltered(sink) == sink

\* lines 207-211: what FindSink returns for the sink it found.
FindSinkResult(sink) == IF Enabled(sinks[sink]) THEN sink ELSE 0

\* lines 207-211
FindSinkEnabled(t) ==
    /\ pc[t] = "FindSink_enabled"
    /\ frame' = [frame EXCEPT ![t].sink = FindSinkResult(frame[t].sink)]
    /\ pc' = [pc EXCEPT ![t] = "FindSink_return"]
    /\ UNCHANGED <<mutex, pipeVars, sessVars, now, lockedCloses>>

\* The caller has the sink (frame[t].sink, 0 for nil).
FindSinkReturn(t) ==
    /\ pc[t] = "FindSink_return"
    /\ pc' = [pc EXCEPT ![t] = "idle"]
    /\ frame' = [frame EXCEPT ![t] = Frame0]
    /\ UNCHANGED <<mutex, pipeVars, sessVars, now, lockedCloses>>

----------------------------------------------------------------------------
(* The registry's session side: the bus handlers and the callers of FindSink *)

SessionIdsInUse == {"s" \o ToString(n) : n \in 1..MaxSessions}

\* The bus delivering messages to the two handlers, each message to one of the
\* goroutines in workers.
BusHandlersOn(workers, busIds, payloads, rooms) ==
    \/ \E t \in workers, b \in busIds, payload \in payloads, room \in rooms :
          \/ SessionCreateIgnore(t, b, payload, room)
          \/ SessionCreateLock(t, b, payload, room)
    \/ \E t \in workers : SessionCreateReturn(t)
    \/ \E t \in workers : SessionCreateInsert(t)
    \/ \E t \in workers : SessionCreateApply(t)
    \/ \E t \in workers : SessionCloseReturn(t)
    \/ \E t \in workers, b \in busIds :
          \/ SessionCloseIgnore(t, b)
          \/ SessionCloseLock(t, b)
    \/ \E t \in workers : SessionCloseUnlock(t)
    \/ \E t \in workers : SessionCloseClose(t)

\* The bus delivering to any of the goroutines.
BusHandlers(busIds, payloads, rooms) ==
    BusHandlersOn(Workers, busIds, payloads, rooms)

NextSess == BusHandlers(BusIds \cup {""}, Statuses \cup {NilPayload}, BOOLEAN)

SpecSess == Init /\ [][NextSess]_vars

\* The callers of FindSink beside the handlers of one bus id's messages.
NextSink ==
    \/ BusHandlers({"ext-1", ""}, {"online"}, {FALSE})
    \/ \E t \in Workers, to \in SessionIdsInUse : FindSinkRLock(t, to)
    \/ \E t \in Workers : FindSinkRUnlock(t)
    \/ \E t \in Workers : FindSinkEnabled(t)
    \/ \E t \in Workers : FindSinkReturn(t)
    \/ \E k \in 1..MaxSessions : SinkSetEnabled(k)

SpecSink == Init /\ [][NextSink]_vars

----------------------------------------------------------------------------
(* The whole registry: the sweeper, a goroutine calling the lookup API and a
   goroutine of the bus running the handlers, all on the one lock *)

ApiCaller == "w1"
BusGoroutine == "w2"

Next ==
    \/ Tick
    \/ CleanupLock
    \/ \E id \in PipelineIds : CleanupVisit(id)
    \/ CleanupUnlock
    \/ GetPipelineLock(ApiCaller, PipelineNamespaceCall, "s1", "userB")
    \/ GetPipelineUnlock(ApiCaller)
    \/ \E id \in LookupIds : GetPipelineByIDRLock(ApiCaller, id)
    \/ GetPipelineByIDRUnlock(ApiCaller)
    \/ FindSinkRLock(ApiCaller, "s1")
    \/ FindSinkRUnlock(ApiCaller)
    \/ FindSinkEnabled(ApiCaller)
    \/ FindSinkReturn(ApiCaller)
    \/ BusHandlersOn({BusGoroutine}, {"ext-1", ""}, {"online"}, {FALSE})

Spec == Init /\ [][Next]_vars

\* The steps goroutine t takes once it is inside an operation. None of them
\* waits for the lock, and the collaborators' calls in them return.
Continue(t) ==
    \/ t = Sweeper /\ ((\E id \in PipelineIds : CleanupVisit(id)) \/ CleanupUnlock)
    \/ GetPipelineUnlock(t)
    \/ GetPipelineByIDRUnlock(t)
    \/ FindSinkRUnlock(t)
    \/ FindSinkEnabled(t)
    \/ FindSinkReturn(t)
    \/ SessionCreateReturn(t)
    \/ SessionCreateInsert(t)
    \/ SessionCreateApply(t)
    \/ SessionCloseReturn(t)
    \/ SessionCloseUnlock(t)
    \/ SessionCloseClose(t)

\* The whole registry with a scheduler that lets every goroutine that can take
\* its next step take it in the end.
SpecLive ==
    Spec /\ \A t \in Workers \cup {Sweeper} : WF_vars(Continue(t))

----------------------------------------------------------------------------
(* Claims about the pipeline side *)

PipeObjects == 1..Len(pipes)

\* C1: GetPipeline calls with the same (namespace, session id, to), with no sweep
\* eviction of that id in between, are all returned one Pipeline, the only one
\* created for the tuple, and its identifier is namespace "." session.Id "." to.
C1_OnePipelinePerTuple ==
    /\ \A r1 \in returned, r2 \in returned :
          (r1[1] = r2[1] /\ r1[2] < r2[2]) => pipes[r1[2]].closes > 0
    /\ \A r \in returned :
          pipes[r[2]].id = r[1][1] \o "." \o r[1][2] \o "." \o r[1][3]
    /\ \A id \in PipelineIds :
          (\A p \in PipeObjects : pipes[p].id = id => pipes[p].closes = 0)
              => Cardinality({p \in PipeObjects : pipes[p].id = id}) <= 1

\* C1 witness: a second call for a tuple holds the instance an earlier call for
\* the same tuple was returned, while the other worker is inside the registry too.
C1_Witness ==
    \E t \in Workers, u \in Workers :
        /\ t # u
        /\ pc[t] = "GetPipeline_unlock"
        /\ frame[t].ok
        /\ <<frame[t].args, frame[t].pipeline>> \in returned
        /\ pipes[frame[t].pipeline].closes = 0

\* C2: at most one Pipeline that was created and that the registry has not closed
\* exists per id, in every reachable state.
C2_OneLivePipelinePerId ==
    \A p \in PipeObjects, q \in PipeObjects :
        (p # q /\ pipes[p].id = pipes[q].id)
            => (pipes[p].closes > 0 \/ pipes[q].closes > 0)

\* C2 witness: a pipeline was created for an id whose previous pipeline a sweep
\* had evicted.
C2_Witness ==
    \E p \in PipeObjects, q \in PipeObjects :
        /\ p < q
        /\ pipes[p].id = pipes[q].id
        /\ pipes[p].closes = 1
        /\ pipes[q].closes = 0
        /\ InTable(pipelineTable, q)

\* C3: a pipeline that was in the table and expired when a sweep started is
\* absent from the table when the sweep's loop has finished, and the registry
\* has invoked its Close exactly once; no pipeline is ever closed twice.
C3_SweepEvictsExpired ==
    /\ (pc[Sweeper] = "cleanup_range" /\ todo = {}) =>
          \A p \in sweepExpired :
              ~InTable(pipelineTable, p) /\ pipes[p].closes = 1
    /\ \A p \in PipeObjects :
          /\ pipes[p].closes <= 1
          /\ (pc[Sweeper] = "idle" /\ ~InTable(pipelineTable, p)) => pipes[p].closes = 1

\* C3 witness: a sweep that found an expired pipeline has finished its loop.
C3_Witness ==
    /\ pc[Sweeper] = "cleanup_range"
    /\ todo = {}
    /\ sweepExpired # {}

\* C4: a GetPipeline that finds an entry, expired or not, returns that entry's
\* pipeline with a refreshed deadline, creating and removing nothing; and a
\* pipeline so revived stays in the table, unclosed, across every step taken
\* while its deadline has not passed, a sweep's visit included.
C4_RefreshOfExpiredKeeps ==
    [][ /\ \A t \in Workers :
              (/\ pc[t] = "idle"
               /\ pc'[t] = "GetPipeline_unlock"
               /\ frame'[t].id \in DOMAIN pipelineTable)
              => LET p == pipelineTable[frame'[t].id] IN
                 /\ frame'[t].pipeline = p
                 /\ pipelineTable' = pipelineTable
                 /\ Len(pipes') = Len(pipes)
                 /\ pipes'[p].expires = now + duration
                 /\ pipes'[p].closes = pipes[p].closes
        /\ \A p \in PipeObjects :
              (/\ pipes[p].revived # "no"
               /\ ~Expired(pipes[p])
               /\ InTable(pipelineTable, p))
              => /\ InTable(pipelineTable', p)
                 /\ pipes'[p].closes = 0
      ]_vars

\* C4 witness: a pipeline that GetPipeline refreshed after its deadline had
\* passed has been visited by a later sweep and is still in the table, open.
C4_Witness ==
    \E p \in PipeObjects :
        /\ pipes[p].revived = "kept"
        /\ InTable(pipelineTable, p)
        /\ pipes[p].closes = 0

\* C8: GetPipelineByID(id) reports ok = false whenever the table has no entry
\* under exactly id, and a pipeline it reports found is the one stored under id.
C8_ExactMatchOnly ==
    \A t \in Workers :
        pc[t] = "GetPipelineByID_unlock" =>
            /\ frame[t].id \notin DOMAIN pipelineTable => ~frame[t].ok
            /\ frame[t].ok => /\ frame[t].id \in DOMAIN pipelineTable
                              /\ pipelineTable[frame[t].id] = frame[t].pipeline

----------------------------------------------------------------------------
(* Claims about the session side *)

SessObjects == 1..Len(sessions)
SinkObjects == 1..Len(sinks)

FourTables == <<pipelineTable, sessionTable, sessionByBusIDTable, sessionSinkTable>>

\* C5: once two sessionCreate messages with the same bus id and a payload have
\* been handled in a row, the second one's session is the one the id maps to, is
\* not closed, is the only session of that id in the session table, and the
\* first one's session has received exactly one Close.
C5_ReplayedCreateReplaces ==
    \A s2 \in SessObjects :
        (sessions[s2].life = "mapped" /\ sessions[s2].prev # 0) =>
            LET e == sessions[s2].bus
                s1 == sessions[s2].prev
            IN
            /\ e \in DOMAIN sessionByBusIDTable
            /\ sessionByBusIDTable[e] = s2
            /\ sessions[s2].closes = 0
            /\ {x \in Range(sessionTable) : sessions[x].bus = e} = {s2}
            /\ sessions[s1].bus = e
            /\ sessions[s1].closes = 1

\* C5 witness: the second create for a bus id has been handled to its end after
\* the first, and no handler is running.
C5_Witness ==
    /\ \A t \in Workers : pc[t] = "idle"
    /\ \E s2 \in SessObjects :
          /\ sessions[s2].life = "mapped"
          /\ sessions[s2].prev # 0
          /\ sessions[s2].Status # ""

\* C6: a sessionClose whose id is not a key of the bus id table changes none of
\* the four tables and closes no session and no sink, in any of its steps.
C6_CloseOfUnmappedIsNoOp ==
    [][ \A t \in Workers :
          /\ (/\ pc[t] = "idle"
               /\ pc'[t] = "sessionClose_unlock"
               /\ frame'[t].id \notin DOMAIN sessionByBusIDTable)
              => /\ ~frame'[t].ok
                 /\ UNCHANGED <<FourTables, sessions, sinks>>
          /\ (/\ pc[t] = "sessionClose_unlock"
               /\ ~frame[t].ok
               /\ pc'[t] # pc[t])
              => /\ pc'[t] = "idle"
                 /\ UNCHANGED <<FourTables, sessions, sinks>>
      ]_vars

\* C6 witness: a second sessionClose of a bus id found nothing, the session the
\* first one removed being closed already.
C6_Witness ==
    \E t \in Workers, s \in SessObjects :
        /\ pc[t] = "sessionClose_unlock"
        /\ ~frame[t].ok
        /\ sessions[s].bus = frame[t].id
        /\ sessions[s].life = "detached"
        /\ sessions[s].closes = 1

\* C7: no operation of the registry invokes Close on a session, a sink or a
\* pipeline while the registry lock is held.
C7_NoCloseUnderLock == lockedCloses = {}

\* C9: FindSink(to) finds exactly the entry stored under to; it returns nil when
\* there is none and when the entry's Enabled() is false, and the entry when its
\* Enabled() is true; no step of FindSink changes any of the four tables.
C9_FindSinkFiltersDisabled ==
    [][ \A t \in Workers :
          /\ (pc[t] = "idle" /\ pc'[t] = "FindSink_unlock")
              => /\ frame'[t].ok = (frame'[t].id \in DOMAIN sessionSinkTable)
                 /\ frame'[t].sink = IF frame'[t].ok
                                     THEN sessionSinkTable[frame'[t].id] ELSE 0
          /\ (pc[t] = "FindSink_unlock" /\ pc'[t] = "FindSink_return")
              => (~frame[t].ok /\ frame'[t].sink = 0)
          /\ (pc[t] = "FindSink_enabled" /\ pc'[t] = "FindSink_return")
              => frame'[t].sink = IF sinks[frame[t].sink].enabled
                                  THEN frame[t].sink ELSE 0
          /\ (/\ pc'[t] # pc[t]
               /\ \/ pc[t] \in {"FindSink_unlock", "FindSink_enabled", "FindSink_return"}
                  \/ pc'[t] = "FindSink_unlock")
              => UNCHANGED FourTables
      ]_vars

\* C9 witness: FindSink returns nil for a key whose entry is in the table with
\* Enabled() false.
C9_Witness ==
    \E t \in Workers :
        /\ pc[t] = "FindSink_return"
        /\ frame[t].ok
        /\ frame[t].sink = 0
        /\ frame[t].id \in DOMAIN sessionSinkTable
        /\ ~sinks[sessionSinkTable[frame[t].id]].enabled

\* C10: a sessionClose of a mapped bus id removes the session's three entries in
\* one critical section, and only after it closes the sink first and the
\* session second, each exactly once.
C10_DetachThenCloseOutside ==
    \A t \in Workers :
        LET s == frame[t].session
            k == frame[t].sink
        IN
        /\ (pc[t] = "sessionClose_unlock" /\ frame[t].ok) =>
              /\ ~InTable(sessionByBusIDTable, s)
              /\ ~InTable(sessionTable, s)
              /\ sessions[s].Id \notin DOMAIN sessionSinkTable
              /\ sessions[s].closes = 0
              /\ k # 0 => sinks[k].closes = 0
        /\ pc[t] = "sessionClose_close" =>
              /\ sessions[s].closes = 0
              /\ k # 0 => sinks[k].closes = 1

----------------------------------------------------------------------------
(* Claims about ignored messages and the agreement of the session tables *)

IgnoredPcs == {"sessionCreate_ignored", "sessionClose_ignored"}

\* C11: a sessionCreate whose payload is absent or whose id is empty, and a
\* sessionClose whose id is empty, change nothing: no step of an ignored
\* message touches a table, an object or the lock, and no message with an
\* empty id or an absent payload gets past the handler's first test.
C11_IgnoredMessagesChangeNothing ==
    /\ [](/\ "" \notin DOMAIN sessionByBusIDTable
          /\ \A t \in Workers :
                /\ pc[t] \in {"sessionCreate_insert", "sessionCreate_apply"}
                      => (frame[t].id # "" /\ frame[t].status # NilPayload)
                /\ pc[t] \in {"sessionClose_unlock", "sessionClose_close"}
                      => frame[t].id # "")
    /\ [][ \A t \in Workers :
              (pc'[t] # pc[t] /\ (pc[t] \in IgnoredPcs \/ pc'[t] \in IgnoredPcs))
              => UNCHANGED <<FourTables, pipes, sessions, sinks, mutex, lockedCloses>>
        ]_vars

\* C11 witness: both handlers are returning from a message they ignore while
\* the registry holds a session.
C11_Witness ==
    \E t \in Workers, u \in Workers :
        /\ pc[t] = "sessionCreate_ignored"
        /\ pc[u] = "sessionClose_ignored"
        /\ DOMAIN sessionTable # {}

\* C12: when sessionCreate has handled a message to its end, the session it
\* made has the status of the message's payload, and keeps it; so the session a
\* bus id maps to, once its handler is through, has a payload's status, and a
\* create with "away" followed by a create with "online" for one id leaves
\* that id one session, whose status is "online".
C12_StatusOfPayload ==
    /\ [](\A e \in DOMAIN sessionByBusIDTable :
            LET s == sessionByBusIDTable[e] IN
            (\A t \in Workers :
                ~(pc[t] = "sessionCreate_apply" /\ frame[t].session = s))
            => /\ sessions[s].Status \in Statuses
               /\ (/\ sessions[s].life = "mapped"
                   /\ sessions[s].prev # 0
                   /\ sessions[sessions[s].prev].Status = "away"
                   /\ sessions[s].Status = "online")
                  => {x \in Range(sessionTable) : sessions[x].bus = e} = {s})
    /\ [][ /\ \A t \in Workers :
                (pc[t] = "sessionCreate_apply" /\ pc'[t] = "idle")
                => sessions'[frame[t].session].Status = frame[t].status
           /\ \A s \in SessObjects :
                sessions[s].Status # "" => sessions'[s].Status = sessions[s].Status
        ]_vars

\* C12 witness: a create with "away" and then a create with "online" for the
\* same bus id have both been handled to the end.
C12_Witness ==
    /\ \A t \in Workers : pc[t] = "idle"
    /\ \E e \in DOMAIN sessionByBusIDTable :
          LET s == sessionByBusIDTable[e] IN
          /\ sessions[s].prev # 0
          /\ sessions[sessions[s].prev].Status = "away"
          /\ sessions[s].Status = "online"

\* C13: an entry leaves the pipeline table, or is replaced in it, only in a
\* step of the sweep that finds its pipeline expired; no step of GetPipeline,
\* GetPipelineByID, FindSink, sessionCreate or sessionClose removes one, so the
\* pipelines of a session that sessionClose has closed stay until a sweep
\* finds them expired.
C13_OnlySweepEvicts ==
    [][ \A id \in DOMAIN pipelineTable :
          (id \notin DOMAIN pipelineTable' \/ pipelineTable'[id] # pipelineTable[id])
          => /\ pc[Sweeper] = "cleanup_range"
             /\ pc'[Sweeper] = "cleanup_range"
             /\ id \in todo
             /\ Expired(pipes[pipelineTable[id]])
             /\ \A t \in Workers : pc'[t] = pc[t]
      ]_vars

\* C13 witness: sessionClose has closed a session, and a sweep has since
\* visited that session's pipeline and left it in the table.
C13_Witness ==
    \E s \in SessObjects :
        LET id == PipelineID(PipelineNamespaceCall, sessions[s].Id, "userB") IN
        /\ sessions[s].life = "detached"
        /\ sessions[s].closes = 1
        /\ id \in DOMAIN pipelineTable
        /\ pc[Sweeper] = "cleanup_range"
        /\ id \notin todo
        /\ pipes[pipelineTable[id]].closes = 0

\* C14: whenever the registry lock is not held, the bus id table maps no two
\* ids to one session, the sessions it maps to are exactly the sessions of
\* the session table, each filed under its own Id, and the sink table has
\* exactly the keys of the session table.
C14_SessionTablesAgree ==
    ~LockHeld =>
        /\ \A a \in DOMAIN sessionByBusIDTable, b \in DOMAIN sessionByBusIDTable :
              a # b => sessionByBusIDTable[a] # sessionByBusIDTable[b]
        /\ Range(sessionByBusIDTable) = Range(sessionTable)
        /\ \A k \in DOMAIN sessionTable : sessions[sessionTable[k]].Id = k
        /\ DOMAIN sessionSinkTable = DOMAIN sessionTable

\* C14 witness: with the lock free and the handlers through, two bus ids are
\* mapped, each to a session of its own.
C14_Witness ==
    /\ ~LockHeld
    /\ \A t \in Workers : pc[t] = "idle"
    /\ Cardinality(DOMAIN sessionByBusIDTable) = 2
    /\ Cardinality(DOMAIN sessionSinkTable) = 2

\* C15: a pipeline is closed, or taken out of the table, only by a step of the
\* sweep and only when it is expired at that step; so a pipeline that is not
\* expired is in the table and not closed, whatever GetPipeline calls and
\* sweeps have run.
C15_SweepSparesUnexpired ==
    /\ [][ \A p \in PipeObjects :
              (\/ pipes'[p].closes # pipes[p].closes
               \/ (InTable(pipelineTable, p) /\ ~InTable(pipelineTable', p)))
              => /\ Expired(pipes[p])
                 /\ pc[Sweeper] = "cleanup_range"
                 /\ pipes[p].id \in todo
        ]_vars
    /\ [](\A p \in PipeObjects :
            ~Expired(pipes[p]) => (pipes[p].closes = 0 /\ InTable(pipelineTable, p)))

\* C15 witness: one sweep has an expired pipeline to evict and has visited
\* another pipeline, not expired, and left it in the table unclosed.
C15_Witness ==
    /\ pc[Sweeper] = "cleanup_range"
    /\ sweepExpired # {}
    /\ \E id \in DOMAIN pipelineTable :
          /\ id \notin todo
          /\ ~Expired(pipes[pipelineTable[id]])
          /\ pipes[pipelineTable[id]].closes = 0

\* The bus id a handler step of goroutine t works for: the id of the message it
\* is entered with, or the one its frame holds.
HandlerBusId(t) == IF pc[t] = "idle" THEN frame'[t].id ELSE frame[t].id

\* C16: a step of a sessionCreate or sessionClose handler for bus id a leaves
\* alone, for every other bus id b, b's mapping, b's sessions and their entries
\* in the session and sink tables, and b's sinks; it closes none of them and
\* creates nothing for b. So what the tables hold for a bus id follows from the
\* messages of that bus id alone: with the lock free, b is mapped exactly when
\* the last session made for b is still mapped, and to that session.
C16_DisjointBusIds ==
    /\ [][ \A t \in Workers : pc'[t] # pc[t] =>
              \A b \in BusIds \ {HandlerBusId(t)} :
                 /\ (b \in DOMAIN sessionByBusIDTable')
                        = (b \in DOMAIN sessionByBusIDTable)
                 /\ b \in DOMAIN sessionByBusIDTable =>
                        sessionByBusIDTable'[b] = sessionByBusIDTable[b]
                 /\ \A s \in SessObjects : sessions[s].bus = b =>
                        /\ sessions'[s] = sessions[s]
                        /\ InTable(sessionTable', s) = InTable(sessionTable, s)
                        /\ (sessions[s].Id \in DOMAIN sessionSinkTable')
                               = (sessions[s].Id \in DOMAIN sessionSinkTable)
                        /\ sessions[s].Id \in DOMAIN sessionSinkTable =>
                               sessionSinkTable'[sessions[s].Id]
                                  = sessionSinkTable[sessions[s].Id]
                 /\ \A k \in SinkObjects : sinks[k].bus = b => sinks'[k] = sinks[k]
                 /\ \A s \in (Len(sessions) + 1)..Len(sessions') :
                        sessions'[s].bus # b
                 /\ \A k \in (Len(sinks) + 1)..Len(sinks') : sinks'[k].bus # b
        ]_vars
    /\ [](~LockHeld =>
            \A b \in BusIds :
               LET made == {s \in SessObjects : sessions[s].bus = b}
                   last == CHOOSE s \in made : \A o \in made : o <= s
               IN  /\ (b \in DOMAIN sessionByBusIDTable)
                         = (made # {} /\ sessions[last].life = "mapped")
                   /\ b \in DOMAIN sessionByBusIDTable =>
                         sessionByBusIDTable[b] = last)

\* C16 witness: two handlers are under way at once for different bus ids, a
\* sessionCreate for one past its unlock and a sessionClose for the other
\* past its own.
C16_Witness ==
    \E t \in Workers, u \in Workers :
       /\ pc[t] = "sessionCreate_apply"
       /\ pc[u] = "sessionClose_close"
       /\ frame[t].id # frame[u].id
       /\ frame[t].id \in DOMAIN sessionByBusIDTable
       /\ frame[u].id \notin DOMAIN sessionByBusIDTable

\* C17: with the lock free, no sink in the sink table has had Close called on
\* it, and no sink is ever closed more than once.
C17_RegisteredSinksAreOpen ==
    /\ ~LockHeld => \A k \in Range(sessionSinkTable) : sinks[k].closes = 0
    /\ \A k \in SinkObjects : sinks[k].closes <= 1

\* C18: sessionCreate never sets the Status of a session, nor calls its
\* SetUseridFake, JoinRoom or BroadcastStatus, after Close has been called on
\* that session.
C18_NoUseAfterClose ==
    \A s \in SessObjects : ~sessions[s].late

\* C19: no session is closed more than once; a session that has been closed
\* is not in the session table; and with the lock free neither the session
\* table nor the bus-id mapping references a closed session.
C19_ClosedSessionsAreGone ==
    /\ \A s \in SessObjects : sessions[s].closes <= 1
    /\ \A s \in SessObjects :
          sessions[s].closes > 0 => ~InTable(sessionTable, s)
    /\ ~LockHeld =>
          \A s \in SessObjects :
             sessions[s].closes > 0 => ~InTable(sessionByBusIDTable, s)

\* C19 witness: one session was closed by the create that replaced it and its
\* successor by a sessionClose; the handlers are done and the lock is free.
C19_Witness ==
    /\ ~LockHeld
    /\ \A t \in Workers : pc[t] = "idle"
    /\ \E s \in SessObjects, r \in SessObjects :
          /\ sessions[s].life = "replaced" /\ sessions[s].closes = 1
          /\ sessions[r].life = "detached" /\ sessions[r].closes = 1
          /\ sessions[r].prev = s

\* The places of an operation between its Lock and its Unlock, and between its
\* RLock and its RUnlock.
WriteSection ==
    {"cleanup_range", "GetPipeline_unlock", "sessionCreate_insert",
     "sessionClose_unlock"}
ReadSection == {"GetPipelineByID_unlock", "FindSink_unlock"}

\* C20: a goroutine holds the write lock exactly while it is between the Lock
\* and the Unlock of one of its operations, and the read lock exactly while
\* between RLock and RUnlock, so every return path has released the lock once;
\* every operation that has started returns, and the lock is free again and
\* again, so nothing waits on it for ever.
C20_LockReleasedOnEveryPath ==
    /\ [](\A t \in Workers \cup {Sweeper} :
            /\ (mutex.w = t) = (pc[t] \in WriteSection)
            /\ (t \in mutex.r) = (pc[t] \in ReadSection))
    /\ \A t \in Workers \cup {Sweeper} : (pc[t] # "idle") ~> (pc[t] = "idle")
    /\ []<>(~LockHeld)

\* C20 witness: FindSink is past the RUnlock of the path that found nothing,
\* and the sweeper has taken the lock after it.
C20_Witness ==
    /\ pc[ApiCaller] = "FindSink_return"
    /\ ~frame[ApiCaller].ok
    /\ ApiCaller \notin mutex.r
    /\ mutex.w = Sweeper

====
